---- MODULE Spec2Model ----
(***************************************************************************)
(* Tic-Tac-Toe backend: GameService over GameModel and PlayerModel.        *)
(*                                                                         *)
(* Every service method is an async function.  Its body runs without       *)
(* interruption from one await to the next; at an await the call is        *)
(* suspended and any other suspended call may be resumed.  A call is       *)
(* therefore a small process: calls[c].pc names the await it is suspended  *)
(* at, and one action of the model is the code between two awaits.         *)
(*                                                                         *)
(* Game and Player values are JavaScript objects.  A lookup in the Map     *)
(* hands out a reference: what a suspended call holds is the object, and   *)
(* the fields it reads after the await are the object's current fields.    *)
(* uuid identifiers are never reused, so an object is named by its id:     *)
(* gameObj[g] is the Game object created with id g, and games is the set   *)
(* of ids that are keys of the GameModel's Map at the moment.              *)
(***************************************************************************)
EXTENDS Integers, Sequences, FiniteSets, TLC

\* ---------------------------------------------------------------- bounds
MaxGames == 1
MaxPlayers == 2
MaxCalls == 2
MaxChoice == 1
MaxPlayChoice == 2
MaxPlayPlayers == 3
MaxNamedGames == 2
MaxPad == 1
MaxPairGames == 2
MaxPairPlayers == 3
MaxRoutePlayers == 2
MaxDeleted == 1

\* ------------------------------------------------------------- constants
BoardSize == 3
NameLimit == 100
Null == 0

GameIds == 1 .. MaxGames
\* The player ids of the concurrent specification and of the one with one
\* request at a time.
PlayerIds == 1 .. MaxPlayers
PlayPlayerIds == 1 .. MaxPlayPlayers
CallIds == 1 .. MaxCalls
Idx == 0 .. (BoardSize - 1)
\* The coordinates requests are drawn from: one below and one above the range.
Coords == -1 .. BoardSize

\* playerObj[p] is the Player object created with id p in the PlayerModel the
\* GameService holds, playerIds the keys of that PlayerModel's Map in insertion
\* order; routePlayers is the Map of the PlayerModel the games router holds (a
\* second `new PlayerModel()`).
VARIABLES games, gameObj, playerObj, playerIds, routePlayers, calls

vars == <<games, gameObj, playerObj, playerIds, routePlayers, calls>>

\* Map.prototype.set and Map.prototype.delete on the keys: a new key goes to the
\* end, a key of the Map keeps its place.
mapSet(keys, key) ==
  IF \E i \in 1 .. Len(keys) : keys[i] = key THEN keys ELSE Append(keys, key)

mapDelete(keys, key) == SelectSeq(keys, LAMBDA x : x # key)

\* PlayerModel.players: the Player objects that are in the Map, by key.
players == [p \in {playerIds[i] : i \in 1 .. Len(playerIds)} |-> playerObj[p]]

\* ------------------------------------------------------------ error kinds
ErrGameNotFound == "Game not found"
ErrNotAccepting == "Game is not accepting new players"
ErrGameFull == "Game is full"
ErrNotActive == "Game is not active"
ErrNotYourTurn == "Not your turn"
ErrCoordinates == "Move coordinates must be between 0 and 2"
ErrOccupied == "Cell is already occupied"
ErrNotInGame == "Player not found in game"
ErrPlayerUnknown == "Player not found in database"
ErrPlayerBusy == "Player is already in an active game"
ErrDeleteActive == "Cannot delete an active game"
ErrName == "Game name must be 100 characters or less"
ErrRoutePlayer == "Player not found"
ErrPlayerMissing == "Player not found"
ErrPlayerName == "Player name must be a non-empty string"
ErrEmail == "Valid email address is required"
ErrEmailInUse == "Email is already in use by another player"
Ok == "ok"

\* ------------------------------------------------------------ game engine
createEmptyBoard == [r \in Idx |-> [c \in Idx |-> Null]]

NewGame ==
  [status |-> "waiting", board |-> createEmptyBoard, players |-> <<>>,
   currentPlayerId |-> Null, winnerId |-> Null, moves |-> <<>>]

\* Mutant of checkWinCondition: the diagonal from the top right corner is not
\* looked at.
checkWinConditionNoAnti(board, playerId) ==
  IF \E row \in Idx : \A c \in Idx : board[row][c] = playerId
    THEN [won |-> TRUE, condition |-> "row", position |-> 0]
  ELSE IF \E col \in Idx : \A r \in Idx : board[r][col] = playerId
    THEN [won |-> TRUE, condition |-> "column", position |-> 0]
  ELSE IF board[0][0] = playerId /\ board[1][1] = playerId /\ board[2][2] = playerId
    THEN [won |-> TRUE, condition |-> "diagonal", position |-> 0]
  ELSE [won |-> FALSE, condition |-> "none", position |-> 0]

checkWinCondition(board, playerId) ==
  IF \E row \in Idx : \A c \in Idx : board[row][c] = playerId
    THEN [won |-> TRUE, condition |-> "row",
          position |-> CHOOSE row \in Idx :
             /\ \A c \in Idx : board[row][c] = playerId
             /\ \A r2 \in Idx : r2 < row => \E c \in Idx : board[r2][c] # playerId]
  ELSE IF \E col \in Idx : \A r \in Idx : board[r][col] = playerId
    THEN [won |-> TRUE, condition |-> "column",
          position |-> CHOOSE col \in Idx :
             /\ \A r \in Idx : board[r][col] = playerId
             /\ \A c2 \in Idx : c2 < col => \E r \in Idx : board[r][c2] # playerId]
  ELSE IF board[0][0] = playerId /\ board[1][1] = playerId /\ board[2][2] = playerId
    THEN [won |-> TRUE, condition |-> "diagonal", position |-> 0]
  ELSE IF board[0][2] = playerId /\ board[1][1] = playerId /\ board[2][0] = playerId
    THEN [won |-> TRUE, condition |-> "diagonal", position |-> 1]
  ELSE [won |-> FALSE, condition |-> "none", position |-> 0]

\* Mutant of isDraw: no board counts as full.
isDrawNever(board) == FALSE

\* Mutant of isDraw: a board with one empty cell left counts as full.
isDrawOneLeft(board) ==
  \E rc \in Idx \X Idx :
    \A r \in Idx : \A c \in Idx : <<r, c>> # rc => board[r][c] # Null

isDraw(board) == \A r \in Idx : \A c \in Idx : board[r][c] # Null

\* players.findIndex(p => p.id === playerId): first index (0-based), -1 if none
findIndex(ps, playerId) ==
  IF \E i \in 1 .. Len(ps) : ps[i] = playerId
    THEN (CHOOSE i \in 1 .. Len(ps) :
            /\ ps[i] = playerId
            /\ \A j \in 1 .. (i - 1) : ps[j] # playerId) - 1
    ELSE -1

\* Mutant of nextPlayer: the turn goes to the first entry of the list.
nextPlayerFirst(ps, playerId) == ps[1]

\* Mutant of nextPlayer: the turn stays with the mover.
nextPlayerStuck(ps, playerId) == playerId

nextPlayer(ps, playerId) == ps[((findIndex(ps, playerId) + 1) % Len(ps)) + 1]

\* Mutant of makeMoveError: the status of the game is not looked at.
makeMoveErrorNoStatus(game, playerId, row, col) ==
  IF game.currentPlayerId # playerId THEN ErrNotYourTurn
  ELSE IF row < 0 \/ row > 2 \/ col < 0 \/ col > 2 THEN ErrCoordinates
  ELSE IF game.board[row][col] # Null THEN ErrOccupied
  ELSE IF findIndex(game.players, playerId) = -1 THEN ErrNotInGame
  ELSE Ok

\* The throw statements of GameModel.makeMove, in order; Ok when none fires.
makeMoveError(game, playerId, row, col) ==
  IF game.status # "active" THEN ErrNotActive
  ELSE IF game.currentPlayerId # playerId THEN ErrNotYourTurn
  ELSE IF row < 0 \/ row > 2 \/ col < 0 \/ col > 2 THEN ErrCoordinates
  ELSE IF game.board[row][col] # Null THEN ErrOccupied
  ELSE IF findIndex(game.players, playerId) = -1 THEN ErrNotInGame
  ELSE Ok

\* Mutant of moveOutcome: a line of the mover is not noticed.
moveOutcomeNoWin(game, playerId) ==
  IF isDraw(game.board)
    THEN [game EXCEPT !.status = "draw"]
  ELSE [game EXCEPT !.currentPlayerId = nextPlayer(game.players, playerId)]

\* Mutant of moveOutcome: the full board is looked at before the win.
moveOutcomeDrawFirst(game, playerId) ==
  IF isDraw(game.board)
    THEN [game EXCEPT !.status = "draw"]
  ELSE IF checkWinCondition(game.board, playerId).won
    THEN [game EXCEPT !.status = "completed", !.winnerId = playerId]
  ELSE [game EXCEPT !.currentPlayerId = nextPlayer(game.players, playerId)]

\* Mutant of moveOutcome: the last mover of a drawn game is recorded as winner.
moveOutcomeDrawWinner(game, playerId) ==
  IF checkWinCondition(game.board, playerId).won
    THEN [game EXCEPT !.status = "completed", !.winnerId = playerId]
  ELSE IF isDraw(game.board)
    THEN [game EXCEPT !.status = "draw", !.winnerId = playerId]
  ELSE [game EXCEPT !.currentPlayerId = nextPlayer(game.players, playerId)]

\* The outcome of a move once it is on the board.
moveOutcome(game, playerId) ==
  IF checkWinCondition(game.board, playerId).won
    THEN [game EXCEPT !.status = "completed", !.winnerId = playerId]
  ELSE IF isDraw(game.board)
    THEN [game EXCEPT !.status = "draw"]
  ELSE [game EXCEPT !.currentPlayerId = nextPlayer(game.players, playerId)]

\* Mutant of applyMove: the mover also takes the first cell of the board.
applyMoveSweep(game, playerId, row, col) ==
  moveOutcome(
    [game EXCEPT !.board[row][col] = playerId,
                 !.board[0][0] = playerId,
                 !.moves = Append(@, [playerId |-> playerId, row |-> row, col |-> col])],
    playerId)

\* Mutant of applyMove: the move is not appended to the log.
applyMoveNoLog(game, playerId, row, col) ==
  moveOutcome([game EXCEPT !.board[row][col] = playerId], playerId)

\* The body of GameModel.makeMove after validation.
applyMove(game, playerId, row, col) ==
  moveOutcome(
    [game EXCEPT !.board[row][col] = playerId,
                 !.moves = Append(@, [playerId |-> playerId, row |-> row, col |-> col])],
    playerId)

\* Mutant of joinGameError: the length of the players list is looked at first.
joinGameErrorFullFirst(game) ==
  IF Len(game.players) >= 2 THEN ErrGameFull
  ELSE IF game.status # "waiting" THEN ErrNotAccepting
  ELSE Ok

\* Mutant of joinGameError: every join is accepted.
joinGameErrorNone(game) == Ok

\* The throw statements of GameModel.joinGame, in order; Ok when none fires.
joinGameError(game) ==
  IF game.status # "waiting" THEN ErrNotAccepting
  ELSE IF Len(game.players) >= 2 THEN ErrGameFull
  ELSE Ok

\* Mutant of applyJoin: the game turns active with its first player.
applyJoinEager(game, playerId) ==
  LET pushed == [game EXCEPT !.players = Append(@, playerId)]
  IN [pushed EXCEPT !.status = "active", !.currentPlayerId = pushed.players[1]]

\* Mutant of applyJoin: the player who joined second moves first.
applyJoinSecond(game, playerId) ==
  LET pushed == [game EXCEPT !.players = Append(@, playerId)]
  IN IF Len(pushed.players) = 2
       THEN [pushed EXCEPT !.status = "active", !.currentPlayerId = pushed.players[2]]
       ELSE pushed

\* The body of GameModel.joinGame after validation.
applyJoin(game, playerId) ==
  LET pushed == [game EXCEPT !.players = Append(@, playerId)]
  IN IF Len(pushed.players) = 2
       THEN [pushed EXCEPT !.status = "active", !.currentPlayerId = pushed.players[1]]
       ELSE pushed

\* The loop of GameModel.getValidMoves from cell number k on, rows outside and
\* columns inside.
RECURSIVE validMovesFrom(_, _)
validMovesFrom(board, k) ==
  IF k >= BoardSize * BoardSize THEN <<>>
  ELSE LET row == k \div BoardSize
           col == k % BoardSize
       IN (IF board[row][col] = Null THEN <<[row |-> row, col |-> col]>> ELSE <<>>)
            \o validMovesFrom(board, k + 1)

\* Mutant of getValidMoves: the columns outside and the rows inside.
getValidMovesByColumn(board) ==
  LET cell(k) == [row |-> k % BoardSize, col |-> k \div BoardSize]
      F[k \in 0 .. BoardSize * BoardSize] ==
        IF k = BoardSize * BoardSize THEN <<>>
        ELSE (IF board[cell(k).row][cell(k).col] = Null THEN <<cell(k)>> ELSE <<>>)
               \o F[k + 1]
  IN F[0]

getValidMoves(board) == validMovesFrom(board, 0)

\* gameModel.listGames(status): the games of the Map with that status.
listGames(status) == {g \in games : gameObj[g].status = status}

\* -------------------------------------------------------------- players
createEmptyStats ==
  [gamesPlayed |-> 0, gamesWon |-> 0, gamesLost |-> 0, gamesDrawn |-> 0, totalMoves |-> 0]

\* Mutant of recordedStats: a loss is not counted among the lost games.
recordedStatsNoLoss(stats, result, moves) ==
  [gamesPlayed |-> stats.gamesPlayed + 1,
   gamesWon |-> stats.gamesWon + (IF result = "win" THEN 1 ELSE 0),
   gamesLost |-> stats.gamesLost,
   gamesDrawn |-> stats.gamesDrawn + (IF result = "draw" THEN 1 ELSE 0),
   totalMoves |-> stats.totalMoves + moves]

\* The copy recordGameResult makes of the player's counters, incremented.
recordedStats(stats, result, moves) ==
  [gamesPlayed |-> stats.gamesPlayed + 1,
   gamesWon |-> stats.gamesWon + (IF result = "win" THEN 1 ELSE 0),
   gamesLost |-> stats.gamesLost + (IF result = "loss" THEN 1 ELSE 0),
   gamesDrawn |-> stats.gamesDrawn + (IF result = "draw" THEN 1 ELSE 0),
   totalMoves |-> stats.totalMoves + moves]

\* game.moves.filter(move => move.playerId === player.id).length
playerMoves(game, playerId) ==
  Cardinality({i \in 1 .. Len(game.moves) : game.moves[i].playerId = playerId})

\* The result GameService.updatePlayerStats reports for one participant.
resultFor(game, playerId) ==
  IF game.status = "draw" THEN "draw"
  ELSE IF game.winnerId = playerId THEN "win"
  ELSE "loss"

\* ---------------------------------------------------------------- calls
\* An optional string argument: given says whether it is passed at all.
Undefined == [given |-> FALSE, text |-> <<>>]

Idle ==
  [op |-> "none", pc |-> "idle", gameId |-> Null, playerId |-> Null,
   row |-> 0, col |-> 0, found |-> FALSE, list |-> {}, idx |-> 0,
   target |-> Null, outcome |-> "", moves |-> 0, stats |-> createEmptyStats,
   result |-> "", len0 |-> 0, legal |-> FALSE, cells |-> <<>>,
   counts |-> <<>>, name |-> Undefined, email |-> Undefined, before |-> <<>>]

\* A slot is free when it holds no call or a call that has finished; a new call
\* takes the first free slot.
Settled(c) == calls[c].pc \in {"idle", "done"}

FreeSlot(c) == /\ Settled(c)
               /\ \A d \in CallIds : d < c => ~ Settled(d)

\* A finished call: what the caller gets, and the request it answers.
Finish(call, result) ==
  [Idle EXCEPT !.op = call.op, !.pc = "done", !.gameId = call.gameId,
               !.playerId = call.playerId,
               !.len0 = call.len0, !.legal = call.legal, !.result = result]

\* Row-major position of a cell among the cells of its kind (empty / occupied).
Rank(board, row, col) ==
  Cardinality({rc \in Idx \X Idx :
     /\ (board[rc[1]][rc[2]] = Null) = (board[row][col] = Null)
     /\ rc[1] * BoardSize + rc[2] < row * BoardSize + col})

\* The coordinates outside the board that requests are drawn from.
OutCoords ==
  {rc \in Coords \X Coords :
     \/ rc[1] < 0 /\ rc[2] = 0
     \/ rc[2] > 2 /\ rc[1] = 0}

\* The coordinates a makeMove request is drawn from: in range, the first k empty
\* and the first k occupied cells of the board; out of range, a row below the
\* range or a column above it beside a coordinate 0.
MoveCoords(g, k) ==
  LET board == IF g \in DOMAIN gameObj THEN gameObj[g].board ELSE createEmptyBoard
  IN {rc \in Idx \X Idx : Rank(board, rc[1], rc[2]) < k} \cup OutCoords

Init ==
  /\ games = {}
  /\ gameObj = <<>>
  /\ playerObj = <<>>
  /\ playerIds = <<>>
  /\ routePlayers = <<>>
  /\ calls = [c \in CallIds |-> Idle]

\* PlayerModel.createPlayer on the PlayerModel the GameService holds; at most n
\* players are created.
createPlayer(n) ==
  /\ Len(playerObj) < n
  /\ playerObj' = Append(playerObj, createEmptyStats)
  /\ playerIds' = Append(playerIds, Len(playerObj) + 1)
  /\ UNCHANGED <<games, gameObj, routePlayers, calls>>

\* GameService.createGame -> GameModel.createGame: the Map is written before
\* the first await; at most n games are created.
createGameUpTo(n) ==
  /\ Len(gameObj) < n
  /\ gameObj' = Append(gameObj, NewGame)
  /\ games' = games \cup {Len(gameObj) + 1}
  /\ UNCHANGED <<playerObj, playerIds, routePlayers, calls>>

createGame == createGameUpTo(MaxGames)

\* ----- GameService.joinGame
joinGame(c, g, p) ==
  /\ FreeSlot(c)
  /\ calls' = [calls EXCEPT ![c] =
       [Idle EXCEPT !.op = "joinGame", !.pc = "join_player", !.gameId = g,
                    !.playerId = p, !.found = (p \in DOMAIN players)]]
  /\ UNCHANGED <<games, gameObj, playerObj, playerIds, routePlayers>>

\* Mutant of joinGamePlayerChecked: the player is not looked up.
joinGamePlayerCheckedAny(c) ==
  /\ calls[c].pc = "join_player"
  /\ calls' = [calls EXCEPT ![c] =
       [@ EXCEPT !.pc = "join_list", !.list = listGames("active")]]
  /\ UNCHANGED <<games, gameObj, playerObj, playerIds, routePlayers>>

joinGamePlayerChecked(c) ==
  /\ calls[c].pc = "join_player"
  /\ calls' = [calls EXCEPT ![c] =
       IF ~ calls[c].found THEN Finish(@, ErrPlayerUnknown)
       ELSE [@ EXCEPT !.pc = "join_list", !.list = listGames("active")]]
  /\ UNCHANGED <<games, gameObj, playerObj, playerIds, routePlayers>>

\* Mutant of joinGameActiveChecked: the active games are not searched for the
\* player.
joinGameActiveCheckedNone(c) ==
  /\ calls[c].pc = "join_list"
  /\ calls' = [calls EXCEPT ![c] =
       [@ EXCEPT !.pc = "join_model", !.found = (calls[c].gameId \in games)]]
  /\ UNCHANGED <<games, gameObj, playerObj, playerIds, routePlayers>>

joinGameActiveChecked(c) ==
  /\ calls[c].pc = "join_list"
  /\ calls' = [calls EXCEPT ![c] =
       IF \E a \in calls[c].list : findIndex(gameObj[a].players, calls[c].playerId) # -1
         THEN Finish(@, ErrPlayerBusy)
         ELSE [@ EXCEPT !.pc = "join_model", !.found = (calls[c].gameId \in games)]]
  /\ UNCHANGED <<games, gameObj, playerObj, playerIds, routePlayers>>

\* GameModel.joinGame after its await.
joinGameApply(c) ==
  LET call == calls[c]
      g == call.gameId
      err == IF ~ call.found THEN ErrGameNotFound ELSE joinGameError(gameObj[g])
  IN /\ call.pc = "join_model"
     /\ calls' = [calls EXCEPT ![c] = Finish(@, err)]
     /\ IF err = Ok
          THEN /\ gameObj' = [gameObj EXCEPT ![g] = applyJoin(@, call.playerId)]
               /\ games' = games \cup {g}
          ELSE UNCHANGED <<games, gameObj>>
     /\ UNCHANGED <<playerObj, playerIds, routePlayers>>

\* ----- GameService.makeMove
\* Mutant of makeMove: the coordinates are left to the game model.
makeMoveNoPrecheck(c, g, p, row, col) ==
  /\ FreeSlot(c)
  /\ LET legal == IF g \in games THEN makeMoveError(gameObj[g], p, row, col) = Ok
                   ELSE FALSE
     IN calls' = [calls EXCEPT ![c] =
          [Idle EXCEPT !.op = "makeMove", !.pc = "move_model", !.gameId = g,
                       !.playerId = p, !.row = row, !.col = col, !.legal = legal,
                       !.len0 = IF legal THEN Len(gameObj[g].moves) ELSE 0,
                       !.found = (g \in games)]]
  /\ UNCHANGED <<games, gameObj, playerObj, playerIds, routePlayers>>

\* The call notes what it was started against: legal says that the move would
\* have been accepted had it been applied at once, len0 is the length of the
\* move log then.
makeMove(c, g, p, row, col) ==
  /\ FreeSlot(c)
  /\ LET legal == IF g \in games THEN makeMoveError(gameObj[g], p, row, col) = Ok
                   ELSE FALSE
         call == [Idle EXCEPT !.op = "makeMove", !.gameId = g, !.playerId = p,
                              !.row = row, !.col = col, !.legal = legal,
                              !.len0 = IF legal THEN Len(gameObj[g].moves) ELSE 0]
     IN calls' = [calls EXCEPT ![c] =
          IF row < 0 \/ row > 2 \/ col < 0 \/ col > 2
            THEN Finish(call, ErrCoordinates)
            ELSE [call EXCEPT !.pc = "move_model", !.found = (g \in games)]]
  /\ UNCHANGED <<games, gameObj, playerObj, playerIds, routePlayers>>

\* Mutant of makeMoveApply: a game that is not in the Map is taken for one that
\* is not active.
makeMoveApplyAbsentInactive(c) ==
  LET call == calls[c]
      g == call.gameId
      err == IF ~ call.found THEN ErrNotActive
             ELSE makeMoveError(gameObj[g], call.playerId, call.row, call.col)
  IN /\ call.pc = "move_model"
     /\ IF err = Ok
          THEN /\ gameObj' = [gameObj EXCEPT ![g] =
                     applyMove(@, call.playerId, call.row, call.col)]
               /\ games' = games \cup {g}
               /\ calls' = [calls EXCEPT ![c].pc = "move_done"]
          ELSE /\ calls' = [calls EXCEPT ![c] = Finish(@, err)]
               /\ UNCHANGED <<games, gameObj>>
     /\ UNCHANGED <<playerObj, playerIds, routePlayers>>

\* Mutant of makeMoveApply: the cell is marked before it is found occupied.
makeMoveApplyMarkFirst(c) ==
  LET call == calls[c]
      g == call.gameId
      err == IF ~ call.found THEN ErrGameNotFound
             ELSE makeMoveError(gameObj[g], call.playerId, call.row, call.col)
  IN /\ call.pc = "move_model"
     /\ IF err = Ok
          THEN /\ gameObj' = [gameObj EXCEPT ![g] =
                     applyMove(@, call.playerId, call.row, call.col)]
               /\ games' = games \cup {g}
               /\ calls' = [calls EXCEPT ![c].pc = "move_done"]
          ELSE /\ calls' = [calls EXCEPT ![c] = Finish(@, err)]
               /\ gameObj' = IF err = ErrOccupied
                               THEN [gameObj EXCEPT ![g].board[call.row][call.col] =
                                                      call.playerId]
                               ELSE gameObj
               /\ UNCHANGED games
     /\ UNCHANGED <<playerObj, playerIds, routePlayers>>

\* GameModel.makeMove after its await.
makeMoveApply(c) ==
  LET call == calls[c]
      g == call.gameId
      err == IF ~ call.found THEN ErrGameNotFound
             ELSE makeMoveError(gameObj[g], call.playerId, call.row, call.col)
  IN /\ call.pc = "move_model"
     /\ IF err = Ok
          THEN /\ gameObj' = [gameObj EXCEPT ![g] =
                     applyMove(@, call.playerId, call.row, call.col)]
               /\ games' = games \cup {g}
               /\ calls' = [calls EXCEPT ![c].pc = "move_done"]
          ELSE /\ calls' = [calls EXCEPT ![c] = Finish(@, err)]
               /\ UNCHANGED <<games, gameObj>>
     /\ UNCHANGED <<playerObj, playerIds, routePlayers>>

\* One iteration of the loop of GameService.updatePlayerStats, up to the await
\* inside recordGameResult.
statsIteration(call, idx) ==
  LET game == gameObj[call.gameId]
      pid == game.players[idx + 1]
  IN [call EXCEPT !.pc = "stats_get", !.idx = idx, !.target = pid,
                  !.outcome = resultFor(game, pid),
                  !.moves = playerMoves(game, pid),
                  !.found = (pid \in DOMAIN players)]

\* GameService.makeMove after gameModel.makeMove has returned.
makeMoveReturned(c) ==
  LET call == calls[c]
      game == gameObj[call.gameId]
  IN /\ call.pc = "move_done"
     /\ calls' = [calls EXCEPT ![c] =
          IF game.status \in {"completed", "draw"} /\ Len(game.players) > 0
            THEN statsIteration(call, 0)
            ELSE Finish(call, Ok)]
     /\ UNCHANGED <<games, gameObj, playerObj, playerIds, routePlayers>>

\* Mutant of recordGameResult: the error of a player that is not in the store
\* ends the makeMove call.
recordGameResultThrows(c) ==
  LET call == calls[c]
  IN /\ call.pc = "stats_get"
     /\ calls' = [calls EXCEPT ![c] =
          IF ~ call.found THEN Finish(call, ErrPlayerUnknown)
          ELSE [@ EXCEPT !.pc = "stats_upd",
                         !.stats = recordedStats(playerObj[call.target], call.outcome, call.moves),
                         !.found = (call.target \in DOMAIN players)]]
     /\ UNCHANGED <<games, gameObj, playerObj, playerIds, routePlayers>>

\* PlayerModel.recordGameResult after its await, up to the await of
\* updatePlayerStats.
recordGameResult(c) ==
  LET call == calls[c]
  IN /\ call.pc = "stats_get"
     /\ calls' = [calls EXCEPT ![c] =
          IF ~ call.found THEN [@ EXCEPT !.pc = "stats_next"]
          ELSE [@ EXCEPT !.pc = "stats_upd",
                         !.stats = recordedStats(playerObj[call.target], call.outcome, call.moves),
                         !.found = (call.target \in DOMAIN players)]]
     /\ UNCHANGED <<games, gameObj, playerObj, playerIds, routePlayers>>

\* PlayerModel.updatePlayerStats after its await.
updatePlayerStats(c) ==
  LET call == calls[c]
  IN /\ call.pc = "stats_upd"
     /\ calls' = [calls EXCEPT ![c].pc = "stats_next"]
     /\ playerObj' = IF call.found THEN [playerObj EXCEPT ![call.target] = call.stats]
                     ELSE playerObj
     /\ playerIds' = IF call.found THEN mapSet(playerIds, call.target) ELSE playerIds
     /\ UNCHANGED <<games, gameObj, routePlayers>>

\* The loop of GameService.updatePlayerStats after one recordGameResult settled.
statsNext(c) ==
  LET call == calls[c]
      game == gameObj[call.gameId]
  IN /\ call.pc = "stats_next"
     /\ calls' = [calls EXCEPT ![c] =
          IF call.idx + 1 < Len(game.players)
            THEN statsIteration(call, call.idx + 1)
            ELSE Finish(call, Ok)]
     /\ UNCHANGED <<games, gameObj, playerObj, playerIds, routePlayers>>

\* ----- PlayerModel.deletePlayer
\* deletePlayer on the PlayerModel the GameService holds, up to its await; it
\* is called while at most MaxDeleted of the players created are out of the Map.
deletePlayer(c, p) ==
  /\ FreeSlot(c)
  /\ Len(playerObj) - Len(playerIds) < MaxDeleted
  /\ calls' = [calls EXCEPT ![c] =
       [Idle EXCEPT !.op = "deletePlayer", !.pc = "delp_get", !.playerId = p,
                    !.found = (p \in DOMAIN players)]]
  /\ UNCHANGED <<games, gameObj, playerObj, playerIds, routePlayers>>

\* deletePlayer after its await: the key is taken out of the Map.
deletePlayerChecked(c) ==
  LET call == calls[c]
  IN /\ call.pc = "delp_get"
     /\ calls' = [calls EXCEPT ![c] =
          Finish(call, IF call.found THEN Ok ELSE ErrPlayerMissing)]
     /\ playerIds' = IF call.found THEN mapDelete(playerIds, call.playerId) ELSE playerIds
     /\ UNCHANGED <<games, gameObj, playerObj, routePlayers>>

\* ----- GameService.deleteGame
deleteGame(c, g) ==
  /\ FreeSlot(c)
  /\ calls' = [calls EXCEPT ![c] =
       [Idle EXCEPT !.op = "deleteGame", !.pc = "del_get", !.gameId = g,
                    !.found = (g \in games)]]
  /\ UNCHANGED <<games, gameObj, playerObj, playerIds, routePlayers>>

\* Mutant of deleteGameChecked: the status of the game is not looked at.
deleteGameCheckedAny(c) ==
  LET call == calls[c]
  IN /\ call.pc = "del_get"
     /\ calls' = [calls EXCEPT ![c] =
          IF ~ call.found THEN Finish(@, ErrGameNotFound)
          ELSE [@ EXCEPT !.pc = "del_model", !.found = (call.gameId \in games)]]
     /\ UNCHANGED <<games, gameObj, playerObj, playerIds, routePlayers>>

\* GameService.deleteGame after its await of getGameById.
deleteGameChecked(c) ==
  LET call == calls[c]
  IN /\ call.pc = "del_get"
     /\ calls' = [calls EXCEPT ![c] =
          IF ~ call.found THEN Finish(@, ErrGameNotFound)
          ELSE IF gameObj[call.gameId].status = "active" THEN Finish(@, ErrDeleteActive)
          ELSE [@ EXCEPT !.pc = "del_model", !.found = (call.gameId \in games)]]
     /\ UNCHANGED <<games, gameObj, playerObj, playerIds, routePlayers>>

\* GameModel.deleteGame after its await.
deleteGameApply(c) ==
  LET call == calls[c]
  IN /\ call.pc = "del_model"
     /\ calls' = [calls EXCEPT ![c] =
          Finish(@, IF call.found THEN Ok ELSE ErrGameNotFound)]
     /\ games' = IF call.found THEN games \ {call.gameId} ELSE games
     /\ UNCHANGED <<gameObj, playerObj, playerIds, routePlayers>>

\* The code of a suspended call between two awaits.
Resume(c) ==
  \/ joinGamePlayerChecked(c)
  \/ joinGameActiveChecked(c)
  \/ joinGameApply(c)
  \/ makeMoveApply(c)
  \/ makeMoveReturned(c)
  \/ recordGameResult(c)
  \/ updatePlayerStats(c)
  \/ statsNext(c)
  \/ deleteGameChecked(c)
  \/ deleteGameApply(c)
  \/ deletePlayerChecked(c)

\* A request starts; the coordinates of a move are drawn from MoveCoords(g, k),
\* the player ids from 1 .. n.
joinGameRequest(n) == \E c \in CallIds, g \in GameIds, p \in 1 .. n : joinGame(c, g, p)

makeMoveRequest(k, n) ==
  \E c \in CallIds : /\ FreeSlot(c)
                     /\ \E g \in GameIds : \E rc \in MoveCoords(g, k) : \E p \in 1 .. n :
                           makeMove(c, g, p, rc[1], rc[2])

deleteGameRequest == \E c \in CallIds, g \in GameIds : deleteGame(c, g)

deletePlayerRequest(n) == \E c \in CallIds, p \in 1 .. n : deletePlayer(c, p)

Request(k, n) ==
  \/ createPlayer(n)
  \/ createGame
  \/ joinGameRequest(n)
  \/ makeMoveRequest(k, n)
  \/ deleteGameRequest
  \/ deletePlayerRequest(n)

\* Requests arrive at any time and suspended calls resume in any order.
Next == Request(MaxChoice, MaxPlayers) \/ \E c \in CallIds : Resume(c)

Spec == Init /\ [][Next]_vars

\* One request at a time: a request starts when every earlier call has finished.
Quiet == \A c \in CallIds : Settled(c)

NextPlay == (Quiet /\ Request(MaxPlayChoice, MaxPlayPlayers)) \/ \E c \in CallIds : Resume(c)

SpecPlay == Init /\ [][NextPlay]_vars

\* ----- games played to their end
\* The player whose turn it is submits a move that the game accepts.
currentPlayerMoves(g) ==
  /\ Quiet
  /\ g \in games
  /\ gameObj[g].status = "active"
  /\ \E c \in CallIds : \E rc \in MoveCoords(g, MaxPlayChoice) :
       /\ makeMoveError(gameObj[g], gameObj[g].currentPlayerId, rc[1], rc[2]) = Ok
       /\ makeMove(c, g, gameObj[g].currentPlayerId, rc[1], rc[2])

NextLive == (Quiet /\ Request(MaxPlayChoice, MaxPlayers)) \/ \E c \in CallIds : Resume(c)

\* One request at a time.  A suspended call is resumed by the event loop, and
\* the player whose turn it is in an active game keeps submitting legal moves.
SpecLive ==
  /\ Init
  /\ [][NextLive]_vars
  /\ WF_vars(\E c \in CallIds : Resume(c))
  /\ \A g \in GameIds : SF_vars(currentPlayerMoves(g))

\* ----- GameService.getValidMoves
getValidMovesStart(c, g) ==
  /\ FreeSlot(c)
  /\ calls' = [calls EXCEPT ![c] =
       [Idle EXCEPT !.op = "getValidMoves", !.pc = "valid_get", !.gameId = g,
                    !.found = (g \in games)]]
  /\ UNCHANGED <<games, gameObj, playerObj, playerIds, routePlayers>>

\* GameService.getValidMoves after its await of getGameById.
getValidMovesChecked(c) ==
  LET call == calls[c]
  IN /\ call.pc = "valid_get"
     /\ calls' = [calls EXCEPT ![c] =
          IF ~ call.found THEN Finish(@, ErrGameNotFound)
          ELSE IF gameObj[call.gameId].status # "active" THEN Finish(@, ErrNotActive)
          ELSE [Finish(@, Ok) EXCEPT !.cells = getValidMoves(gameObj[call.gameId].board)]]
     /\ UNCHANGED <<games, gameObj, playerObj, playerIds, routePlayers>>

getValidMovesRequest == \E c \in CallIds, g \in GameIds : getValidMovesStart(c, g)

\* One request at a time, the valid moves of a game among the requests.
NextQuery ==
  \/ Quiet /\ (Request(MaxPlayChoice, MaxPlayers) \/ getValidMovesRequest)
  \/ \E c \in CallIds : Resume(c) \/ getValidMovesChecked(c)

SpecQuery == Init /\ [][NextQuery]_vars

\* ----- several games
\* Two calls in flight together on MaxPairGames games that MaxPairPlayers players
\* have created and joined before.
PairGameIds == 1 .. MaxPairGames
PairPlayerIds == 1 .. MaxPairPlayers

\* A game after createGame and up to two joinGame calls; the same player may
\* have joined twice.
Lobby ==
  {NewGame}
    \cup {applyJoin(NewGame, p) : p \in PairPlayerIds}
    \cup {applyJoin(applyJoin(NewGame, pq[1]), pq[2]) : pq \in PairPlayerIds \X PairPlayerIds}

\* The games are in the Map, each as its joins have left it.
InitPair ==
  /\ games = PairGameIds
  /\ gameObj \in [PairGameIds -> Lobby]
  /\ playerObj = [p \in PairPlayerIds |-> createEmptyStats]
  /\ playerIds = [p \in PairPlayerIds |-> p]
  /\ routePlayers = <<>>
  /\ calls = [c \in CallIds |-> Idle]

\* A slot takes one call.
Unused(c) == calls[c].pc = "idle"

joinGamePair ==
  \E c \in CallIds, g \in PairGameIds, p \in PairPlayerIds : Unused(c) /\ joinGame(c, g, p)

makeMovePair ==
  \E c \in CallIds :
    /\ Unused(c) /\ FreeSlot(c)
    /\ \E g \in PairGameIds : \E rc \in MoveCoords(g, MaxChoice) : \E p \in PairPlayerIds :
         makeMove(c, g, p, rc[1], rc[2])

deleteGamePair == \E c \in CallIds, g \in PairGameIds : Unused(c) /\ deleteGame(c, g)

deletePlayerPair == \E c \in CallIds, p \in PairPlayerIds : Unused(c) /\ deletePlayer(c, p)

NextPair ==
  \/ joinGamePair
  \/ makeMovePair
  \/ deleteGamePair
  \/ deletePlayerPair
  \/ \E c \in CallIds : joinGamePlayerChecked(c)
  \/ \E c \in CallIds : joinGameActiveChecked(c)
  \/ \E c \in CallIds : joinGameApply(c)
  \/ \E c \in CallIds : makeMoveApply(c)
  \/ \E c \in CallIds : makeMoveReturned(c)
  \/ \E c \in CallIds : deleteGameChecked(c)
  \/ \E c \in CallIds : deleteGameApply(c)
  \/ \E c \in CallIds : deletePlayerChecked(c)

SpecPair == InitPair /\ [][NextPair]_vars

\* ----- createGame and joinGame on several games
\* The requests that create and fill games, in flight together.
NextJoin ==
  \/ createPlayer(MaxPairPlayers)
  \/ createGameUpTo(MaxPairGames)
  \/ \E c \in CallIds, g \in PairGameIds, p \in PairPlayerIds : joinGame(c, g, p)
  \/ \E c \in CallIds : joinGamePlayerChecked(c)
  \/ \E c \in CallIds : joinGameActiveChecked(c)
  \/ \E c \in CallIds : joinGameApply(c)
  \/ deletePlayerRequest(MaxPairPlayers)
  \/ \E c \in CallIds : deletePlayerChecked(c)

SpecJoin == Init /\ [][NextJoin]_vars

\* ----- games that finish together
\* The game after its players have moved in turn, each on the first of the valid
\* moves, up to the move that would end it.
RECURSIVE playToLastMove(_)
playToLastMove(game) ==
  LET cell == Head(getValidMoves(game.board))
      next == applyMove(game, game.currentPlayerId, cell.row, cell.col)
  IN IF next.status = "active" THEN playToLastMove(next) ELSE game

\* The keys of the players Map: any of the players created may have been
\* deleted again (PlayerModel.deletePlayer) before the last moves are made.
Stores ==
  {SelectSeq([p \in PairPlayerIds |-> p], LAMBDA x : x \in S) : S \in SUBSET PairPlayerIds}

InitFinish ==
  /\ games = PairGameIds
  /\ gameObj \in [PairGameIds -> {playToLastMove(l) : l \in {x \in Lobby : x.status = "active"}}]
  /\ playerObj = [p \in PairPlayerIds |-> createEmptyStats]
  /\ playerIds \in Stores
  /\ routePlayers = <<>>
  /\ calls = [c \in CallIds |-> Idle]

\* The calls that make the last moves, in flight together, and their
\* continuations.
NextFinish ==
  \/ makeMovePair
  \/ deletePlayerPair
  \/ \E c \in CallIds : deletePlayerChecked(c)
  \/ \E c \in CallIds : makeMoveApply(c)
  \/ \E c \in CallIds : makeMoveReturned(c)
  \/ \E c \in CallIds : recordGameResult(c)
  \/ \E c \in CallIds : updatePlayerStats(c)
  \/ \E c \in CallIds : statsNext(c)

SpecFinish == InitFinish /\ [][NextFinish]_vars

\* ----- POST /games/:id/join
\* uuid identifiers never coincide: the k-th player created in the router's
\* PlayerModel is named -k, the k-th of the service's PlayerModel k.
routeGetPlayerById(p) == (0 - p) \in DOMAIN routePlayers

\* PlayerModel.createPlayer on the PlayerModel the games router holds.
routeCreatePlayer ==
  /\ Len(routePlayers) < MaxRoutePlayers
  /\ routePlayers' = Append(routePlayers, createEmptyStats)
  /\ UNCHANGED <<games, gameObj, playerObj, playerIds, calls>>

\* The handler up to `await playerModel.getPlayerById(playerId)`.
routeJoin(c, g, p) ==
  /\ FreeSlot(c)
  /\ calls' = [calls EXCEPT ![c] =
       [Idle EXCEPT !.op = "routeJoin", !.pc = "route_player", !.gameId = g,
                    !.playerId = p, !.found = routeGetPlayerById(p)]]
  /\ UNCHANGED <<games, gameObj, playerObj, playerIds, routePlayers>>

\* The handler after the await: 404 'Player not found', or the call of
\* gameService.joinGame(id, player) up to its first await.
routeJoinChecked(c) ==
  /\ calls[c].pc = "route_player"
  /\ calls' = [calls EXCEPT ![c] =
       IF ~ calls[c].found THEN Finish(@, ErrRoutePlayer)
       ELSE [@ EXCEPT !.pc = "join_player",
                      !.found = (calls[c].playerId \in DOMAIN players)]]
  /\ UNCHANGED <<games, gameObj, playerObj, playerIds, routePlayers>>

\* The player ids a join request is drawn from: those of either PlayerModel.
RoutePlayerIds == (1 .. MaxPlayers) \cup {0 - k : k \in 1 .. MaxRoutePlayers}

routeJoinRequest == \E c \in CallIds, g \in GameIds, p \in RoutePlayerIds : routeJoin(c, g, p)

NextRoute ==
  \/ createPlayer(MaxPlayers)
  \/ routeCreatePlayer
  \/ createGame
  \/ routeJoinRequest
  \/ \E c \in CallIds : routeJoinChecked(c)
  \/ \E c \in CallIds : joinGamePlayerChecked(c)
  \/ deletePlayerRequest(MaxPlayers)
  \/ \E c \in CallIds : deletePlayerChecked(c)

SpecRoute == Init /\ [][NextRoute]_vars

\* ----- GET /games/stats/overview
\* getActiveGamesCount, getWaitingGamesCount and getCompletedGamesCount: each
\* lists the games of its status before its await, so Promise.all gets the
\* three lengths of one and the same moment.
gamesCount(status) == Cardinality(listGames(status))

overview(c) ==
  /\ FreeSlot(c)
  /\ calls' = [calls EXCEPT ![c] =
       [Idle EXCEPT !.op = "overview", !.pc = "overview_all",
                    !.counts = <<gamesCount("active"), gamesCount("waiting"),
                                 gamesCount("completed")>>]]
  /\ UNCHANGED <<games, gameObj, playerObj, playerIds, routePlayers>>

\* stats.totalGames of the response.
totalGames(counts) == counts[1] + counts[2] + counts[3]

\* The handler after Promise.all: the response is sent.
overviewReturned(c) ==
  /\ calls[c].pc = "overview_all"
  /\ calls' = [calls EXCEPT ![c] = [Finish(@, Ok) EXCEPT !.counts = calls[c].counts]]
  /\ UNCHANGED <<games, gameObj, playerObj, playerIds, routePlayers>>

overviewRequest == \E c \in CallIds : overview(c)

NextOverview ==
  \/ Quiet /\ (Request(MaxPlayChoice, MaxPlayers) \/ overviewRequest)
  \/ \E c \in CallIds : Resume(c)
  \/ \E c \in CallIds : overviewReturned(c)

SpecOverview == Init /\ [][NextOverview]_vars

\* ----- checkWinCondition on its own
\* Every 3x3 grid over null and the player ids, as the board of one game.
Boards == [Idx -> [Idx -> {Null} \cup PlayerIds]]

InitWin ==
  /\ games = {1}
  /\ gameObj \in {<<[NewGame EXCEPT !.board = b]>> : b \in Boards}
  /\ playerObj = <<>>
  /\ playerIds = <<>>
  /\ routePlayers = <<>>
  /\ calls = [c \in CallIds |-> Idle]

\* checkWinCondition(board, playerId) is evaluated on the board; the call
\* record keeps the WinResult: found is won, outcome the condition, idx the
\* position.
checkWin(p) ==
  LET res == checkWinCondition(gameObj[1].board, p)
  IN /\ calls' = [calls EXCEPT ![1] =
          [Idle EXCEPT !.op = "checkWinCondition", !.pc = "done", !.gameId = 1,
                       !.playerId = p, !.found = res.won,
                       !.outcome = res.condition, !.idx = res.position]]
     /\ UNCHANGED <<games, gameObj, playerObj, playerIds, routePlayers>>

NextWin == \E p \in PlayerIds : checkWin(p)

SpecWin == InitWin /\ [][NextWin]_vars

\* ----- createGame with a name
\* A string is a sequence of characters; the names requests carry are made of
\* blanks and letters.
Blank == " "

Repeat(ch, n) == [i \in 1 .. n |-> ch]

\* String.prototype.trim: the blanks at both ends are dropped.
RECURSIVE trimStart(_)
trimStart(str) ==
  IF Len(str) > 0 /\ Head(str) = Blank THEN trimStart(Tail(str)) ELSE str

RECURSIVE trimEnd(_)
trimEnd(str) ==
  IF Len(str) > 0 /\ str[Len(str)] = Blank
    THEN trimEnd(SubSeq(str, 1, Len(str) - 1))
    ELSE str

trim(str) == trimEnd(trimStart(str))

\* `Game-${Date.now()}`: the five characters and the digits of the clock.
Placeholder == <<"G", "a", "m", "e", "-">> \o Repeat("0", 13)

\* JavaScript truthiness of the argument: passed and not the empty string.
Truthy(name) == name.given /\ Len(name.text) > 0

\* The names requests are drawn from: none, the empty string, and up to MaxPad
\* blanks on either side of no letter, one letter, NameLimit letters and one
\* more than NameLimit letters.
Names ==
  {Undefined} \cup
  {[given |-> TRUE, text |-> Repeat(Blank, lead) \o Repeat("a", n) \o Repeat(Blank, trail)] :
     lead \in 0 .. MaxPad, trail \in 0 .. MaxPad, n \in {0, 1, NameLimit, NameLimit + 1}}

\* The Game object GameModel.createGame builds; the name takes no part in any
\* other operation, so the other specifications leave it out.
NamedGame(name) ==
  [name |-> IF Truthy(name) THEN name.text ELSE Placeholder,
   status |-> NewGame.status, board |-> NewGame.board, players |-> NewGame.players,
   currentPlayerId |-> NewGame.currentPlayerId, winnerId |-> NewGame.winnerId,
   moves |-> NewGame.moves]

\* GameService.createGame(name) -> GameModel.createGame(name); at most
\* MaxNamedGames requests are made.
createGameNamed(name) ==
  LET call == [Idle EXCEPT !.op = "createGame"]
  IN /\ Len(gameObj) < MaxNamedGames
     /\ IF Truthy(name) /\ Len(trim(name.text)) > NameLimit
          THEN /\ calls' = [calls EXCEPT ![1] = Finish(call, ErrName)]
               /\ UNCHANGED <<games, gameObj>>
          ELSE /\ gameObj' = Append(gameObj, NamedGame(name))
               /\ games' = games \cup {Len(gameObj) + 1}
               /\ calls' = [calls EXCEPT ![1] =
                    Finish([call EXCEPT !.gameId = Len(gameObj) + 1], Ok)]
     /\ UNCHANGED <<playerObj, playerIds, routePlayers>>

NextNames == \E name \in Names : createGameNamed(name)

SpecNames == Init /\ [][NextNames]_vars

\* ----- PlayerModel.updatePlayer
\* String.prototype.toLowerCase on the letters the requests are made of.
lowerChar(ch) ==
  IF ch = "A" THEN "a" ELSE IF ch = "B" THEN "b" ELSE IF ch = "D" THEN "d" ELSE ch

toLowerCase(str) == [i \in 1 .. Len(str) |-> lowerChar(str[i])]

\* /^[^\s@]+@[^\s@]+\.[^\s@]+$/ : one '@' that is not the first character, a '.'
\* after it that is neither next to it nor the last character, and no blank.
isValidEmail(str) ==
  \E i, j \in 1 .. Len(str) :
    /\ 1 < i /\ i + 1 < j /\ j < Len(str)
    /\ str[i] = "@" /\ str[j] = "."
    /\ \A k \in (1 .. Len(str)) \ {i} : str[k] # Blank /\ str[k] # "@"

\* The Player object as far as updatePlayer is concerned: the statistics take no
\* part in it.  updatedAt counts the instants `new Date()` was stored.
ProfilePlayer(name, email) ==
  [name |-> trim(name), email |-> trim(toLowerCase(email)), updatedAt |-> 0]

Text(str) == [given |-> TRUE, text |-> str]

\* The names and addresses requests carry.
UpdateNames == {Undefined, Text(<<>>), Text(<<Blank>>), Text(<<"n">>), Text(<<"m", Blank>>)}

UpdateEmails ==
  {Undefined, Text(<<>>), Text(<<"a", "b">>), Text(<<"a", "@", "b", ".", "c">>),
   Text(<<"A", "@", "b", ".", "c">>), Text(<<"d", "@", "b", ".", "c">>),
   Text(<<Blank, "d", "@", "b", ".", "c">>)}

\* The names and addresses players are created with.
CreateEmails == {Text(<<"a", "@", "b", ".", "c">>), Text(<<"D", "@", "b", ".", "c", Blank>>)}

\* PlayerModel.createPlayer(name, email): no argument is validated.
createPlayerProfile(name, email) ==
  /\ Len(playerObj) < MaxPlayers
  /\ playerObj' = Append(playerObj, ProfilePlayer(name.text, email.text))
  /\ playerIds' = Append(playerIds, Len(playerObj) + 1)
  /\ UNCHANGED <<games, gameObj, routePlayers, calls>>

\* getPlayerByEmail: the first player of the Map, in insertion order, with that
\* address; Null if there is none.
getPlayerByEmail(email) ==
  LET hits == {i \in 1 .. Len(playerIds) :
                 playerObj[playerIds[i]].email = trim(toLowerCase(email))}
  IN IF hits = {} THEN Null
     ELSE playerIds[CHOOSE i \in hits : \A j \in hits : i <= j]

\* updatePlayer(playerId, {name, email}) up to `await this.getPlayerById`;
\* before is the Player object as the call finds it.
updatePlayer(c, p, name, email) ==
  /\ FreeSlot(c)
  /\ calls' = [calls EXCEPT ![c] =
       [Idle EXCEPT !.op = "updatePlayer", !.pc = "upd_get", !.playerId = p,
                    !.name = name, !.email = email,
                    !.found = (p \in DOMAIN players),
                    !.before = IF p \in DOMAIN players THEN playerObj[p] ELSE <<>>]]
  /\ UNCHANGED <<games, gameObj, playerObj, playerIds, routePlayers>>

\* The throw statements the call can reach before its second await.
updatePlayerError(call) ==
  IF ~ call.found THEN ErrPlayerMissing
  ELSE IF call.name.given /\ Len(trim(call.name.text)) = 0 THEN ErrPlayerName
  ELSE IF call.email.given /\ ~ isValidEmail(call.email.text) THEN ErrEmail
  ELSE Ok

\* The Player object once the name of the request is assigned.
namedPlayer(player, name) ==
  IF name.given /\ Len(trim(name.text)) > 0
    THEN [player EXCEPT !.name = trim(name.text)]
    ELSE player

\* The end of updatePlayer: updatedAt and this.players.set.
storedPlayer(player) == [player EXCEPT !.updatedAt = @ + 1]

\* updatePlayer after its first await.  The name is assigned to the Player
\* object before the email is looked at; with an email that is valid the call
\* goes on to `await this.getPlayerByEmail`, without an email it ends.
updatePlayerNamed(c) ==
  LET call == calls[c]
      p == call.playerId
      err == updatePlayerError(call)
  IN /\ call.pc = "upd_get"
     /\ IF err \in {ErrPlayerMissing, ErrPlayerName}
          THEN /\ calls' = [calls EXCEPT ![c] = Finish(call, err)]
               /\ UNCHANGED <<playerObj, playerIds>>
        ELSE IF err = ErrEmail
          THEN /\ calls' = [calls EXCEPT ![c] = Finish(call, err)]
               /\ playerObj' = [playerObj EXCEPT ![p] = namedPlayer(@, call.name)]
               /\ UNCHANGED playerIds
        ELSE IF call.email.given
          THEN /\ calls' = [calls EXCEPT ![c] =
                    [call EXCEPT !.pc = "upd_email",
                                 !.target = getPlayerByEmail(call.email.text)]]
               /\ playerObj' = [playerObj EXCEPT ![p] = namedPlayer(@, call.name)]
               /\ UNCHANGED playerIds
        ELSE /\ calls' = [calls EXCEPT ![c] = Finish(call, Ok)]
             /\ playerObj' = [playerObj EXCEPT ![p] = storedPlayer(namedPlayer(@, call.name))]
             /\ playerIds' = mapSet(playerIds, p)
     /\ UNCHANGED <<games, gameObj, routePlayers>>

\* updatePlayer after its second await.
updatePlayerEmailed(c) ==
  LET call == calls[c]
      p == call.playerId
  IN /\ call.pc = "upd_email"
     /\ IF call.target \notin {Null, p}
          THEN /\ calls' = [calls EXCEPT ![c] = Finish(call, ErrEmailInUse)]
               /\ UNCHANGED <<playerObj, playerIds>>
          ELSE /\ calls' = [calls EXCEPT ![c] = Finish(call, Ok)]
               /\ playerObj' = [playerObj EXCEPT ![p] =
                    storedPlayer([@ EXCEPT !.email = trim(toLowerCase(call.email.text))])]
               /\ playerIds' = mapSet(playerIds, p)
     /\ UNCHANGED <<games, gameObj, routePlayers>>

\* Players are created; updatePlayer and deletePlayer calls are in flight
\* together, one call for each slot.
NextProfile ==
  \/ \E email \in CreateEmails : createPlayerProfile(Text(<<"x">>), email)
  \/ \E c \in CallIds, p \in 1 .. MaxPlayers, name \in UpdateNames, email \in UpdateEmails :
       calls[c].pc = "idle" /\ updatePlayer(c, p, name, email)
  \/ \E c \in CallIds, p \in 1 .. MaxPlayers : calls[c].pc = "idle" /\ deletePlayer(c, p)
  \/ \E c \in CallIds : updatePlayerNamed(c)
  \/ \E c \in CallIds : updatePlayerEmailed(c)
  \/ \E c \in CallIds : deletePlayerChecked(c)

SpecProfile == Init /\ [][NextProfile]_vars

\* ================================================================ claims
Occupied(board) == {rc \in Idx \X Idx : board[rc[1]][rc[2]] # Null}

Terminal(game) == game.status \in {"completed", "draw"}

TwoDistinct(game) == Len(game.players) = 2 /\ game.players[1] # game.players[2]

\* ----- C1
\* Every slot holds a finished makeMove call of one burst: the same game, the
\* same player, all started legal against the same move log, so all were in
\* flight together and nothing else ran between the first start and the last
\* return.
BurstDone(g) ==
  /\ g \in DOMAIN gameObj
  /\ TwoDistinct(gameObj[g])
  /\ \A c \in CallIds :
       /\ calls[c].op = "makeMove" /\ calls[c].pc = "done"
       /\ calls[c].gameId = g /\ calls[c].legal
       /\ calls[c].playerId = calls[1].playerId
       /\ calls[c].len0 = calls[1].len0

\* C1: when MaxCalls makeMove calls by the current player of an active game
\* with two distinct participants are in flight together, exactly one succeeds,
\* every other one fails with 'Not your turn' or 'Game is not active', and the
\* board has one more occupied cell and the log one more move than at the start.
C1_OneMovePerBurst ==
  \A g \in GameIds :
    BurstDone(g) =>
      /\ Cardinality({c \in CallIds : calls[c].result = Ok}) = 1
      /\ \A c \in CallIds : calls[c].result \in {Ok, ErrNotYourTurn, ErrNotActive}
      /\ Len(gameObj[g].moves) = calls[1].len0 + 1
      /\ Cardinality(Occupied(gameObj[g].board)) = calls[1].len0 + 1

C1_Witness == \E g \in GameIds : BurstDone(g) /\ MaxCalls >= 2

\* ----- C2
\* C2: a game is never removed from the Map while its status is active.
C2_NoActiveGameRemoved ==
  [][\A g \in games : g \notin games' => gameObj[g].status # "active"]_vars

\* ----- C4
\* C4: currentPlayerId is non-null exactly when the status is active, and a
\* non-null currentPlayerId is a participant (stated for the games with two
\* distinct participants).
C4_CurrentPlayerIffActive ==
  \A g \in games :
    LET game == gameObj[g]
    IN TwoDistinct(game) =>
         /\ (game.currentPlayerId # Null) <=> (game.status = "active")
         /\ game.currentPlayerId # Null =>
              \E i \in 1 .. Len(game.players) : game.players[i] = game.currentPlayerId

\* ----- C5
\* C5: after a successful move that leaves the game active the turn is with a
\* player other than the mover, and no two consecutive moves of a log are by
\* the same player.
C5_TurnsAlternate ==
  \A g \in games :
    LET game == gameObj[g]
        n == Len(game.moves)
    IN /\ \A i \in 1 .. (n - 1) : game.moves[i].playerId # game.moves[i + 1].playerId
       /\ (n > 0 /\ game.status = "active") =>
            game.currentPlayerId # game.moves[n].playerId

\* ----- C6
\* C6: a joinGame by a player the game already lists does not succeed, so no
\* players list names a player twice.
C6_NoDuplicateParticipant ==
  \A g \in games :
    \A i, j \in 1 .. Len(gameObj[g].players) :
      i # j => gameObj[g].players[i] # gameObj[g].players[j]

\* ----- C3
AfterMove == {"move_done", "stats_get", "stats_upd", "stats_next"}

FailsNow(c) ==
  /\ calls'[c] # calls[c]
  /\ calls'[c].pc = "done"
  /\ calls'[c].result # Ok

\* C3: the step in which a makeMove, joinGame or deleteGame call fails changes
\* no game and not the set of games; a call that has applied a move never
\* fails; and a step that changes a game or the set of games is createGame or
\* the step of a call that succeeds.
C3_FailedCallChangesNothing ==
  [][/\ \A c \in CallIds : FailsNow(c) => (games' = games /\ gameObj' = gameObj)
     /\ \A c \in CallIds : (calls[c].pc \in AfterMove /\ calls'[c].pc = "done")
                             => calls'[c].result = Ok
     /\ (games' # games \/ gameObj' # gameObj) =>
          \/ Len(gameObj') = Len(gameObj) + 1
          \/ \E c \in CallIds :
               /\ calls'[c] # calls[c]
               /\ \/ calls'[c].pc = "move_done"
                  \/ calls'[c].pc = "done" /\ calls'[c].result = Ok]_vars

\* A move on an occupied cell has been rejected (Scenario D).
C3_Witness ==
  \E c \in CallIds :
    /\ calls[c].op = "makeMove" /\ calls[c].pc = "done"
    /\ calls[c].result = ErrOccupied
    /\ calls[c].gameId \in games
    /\ Occupied(gameObj[calls[c].gameId].board) # {}

\* ----- C7
Lines ==
  {{<<r, c>> : c \in Idx} : r \in Idx}
    \cup {{<<r, c>> : r \in Idx} : c \in Idx}
    \cup {{<<i, i>> : i \in Idx}, {<<i, BoardSize - 1 - i>> : i \in Idx}}

HasLine(board, p) == \E line \in Lines : \A rc \in line : board[rc[1]][rc[2]] = p

Full(board) == Occupied(board) = Idx \X Idx

OtherParticipant(ps, p) == IF ps[1] = p THEN ps[2] ELSE ps[1]

MoveApplied(g) == Len(gameObj'[g].moves) > Len(gameObj[g].moves)

\* C7: a successful move has exactly one of three outcomes: the mover holds a
\* line, the game is completed and the mover is the winner; otherwise the board
\* is full, the game is a draw and has no winner; otherwise the game stays
\* active and the turn is with the other entry of the players list.  A full
\* board is never left active.
C7_OneOutcomePerMove ==
  [][\A g \in DOMAIN gameObj :
       /\ MoveApplied(g) =>
            LET old == gameObj[g]
                new == gameObj'[g]
                p == new.moves[Len(new.moves)].playerId
            IN /\ old.status = "active"
               /\ IF HasLine(new.board, p)
                    THEN new.status = "completed" /\ new.winnerId = p
                  ELSE IF Full(new.board)
                    THEN new.status = "draw" /\ new.winnerId = Null
                  ELSE /\ new.status = "active" /\ new.winnerId = Null
                       /\ new.currentPlayerId = OtherParticipant(new.players, p)
       /\ Full(gameObj'[g].board) => Terminal(gameObj'[g])]_vars

\* The ninth move of a game completed a line: the game is completed.
C7_Witness ==
  \E g \in games :
    /\ TwoDistinct(gameObj[g])
    /\ Len(gameObj[g].moves) = BoardSize * BoardSize
    /\ gameObj[g].status = "completed"

LogMatchesBoard(game) ==
  /\ Len(game.moves) = Cardinality(Occupied(game.board))
  /\ \A i, j \in 1 .. Len(game.moves) :
       i # j => <<game.moves[i].row, game.moves[i].col>>
                  # <<game.moves[j].row, game.moves[j].col>>
  /\ \A i \in 1 .. Len(game.moves) :
       game.board[game.moves[i].row][game.moves[i].col] = game.moves[i].playerId

\* C9: the log is as long as the board has occupied cells, no two moves of it
\* target the same cell, every move's cell holds the mover, and a step that
\* changes a board or a log adds one move and occupies one cell.  The games
\* are so at the start and after every step that changes a game object.
C9_LogMatchesBoard ==
  /\ \A g \in DOMAIN gameObj : LogMatchesBoard(gameObj[g])
  /\ [][\/ gameObj' = gameObj
        \/ \A g \in DOMAIN gameObj' :
             /\ LogMatchesBoard(gameObj'[g])
             /\ (/\ g \in DOMAIN gameObj
                 /\ \/ gameObj'[g].board # gameObj[g].board
                    \/ gameObj'[g].moves # gameObj[g].moves) =>
                  /\ Len(gameObj'[g].moves) = Len(gameObj[g].moves) + 1
                  /\ Cardinality(Occupied(gameObj'[g].board))
                       = Cardinality(Occupied(gameObj[g].board)) + 1
                  /\ SubSeq(gameObj'[g].moves, 1, Len(gameObj[g].moves))
                       = gameObj[g].moves]_vars

\* Both participants have moved.
C9_Witness ==
  \E g \in games :
    /\ TwoDistinct(gameObj[g])
    /\ Len(gameObj[g].moves) >= 4

\* ----- C10
\* C10: winnerId is non-null exactly when the status is completed, and a
\* non-null winnerId is a participant.
C10_WinnerIffCompleted ==
  \A g \in DOMAIN gameObj :
    LET game == gameObj[g]
    IN /\ (game.winnerId # Null) <=> (game.status = "completed")
       /\ game.winnerId # Null =>
            \E i \in 1 .. Len(game.players) : game.players[i] = game.winnerId

\* The second participant has won.
C10_Witness ==
  \E g \in games :
    /\ TwoDistinct(gameObj[g])
    /\ gameObj[g].status = "completed"
    /\ gameObj[g].winnerId = gameObj[g].players[2]

\* ----- C11
\* C11: a players list has at most two entries; a waiting game has at most one
\* player and an active, completed or draw game has exactly two.
C11_PlayersMatchStatus ==
  \A g \in DOMAIN gameObj :
    LET game == gameObj[g]
    IN /\ Len(game.players) <= 2
       /\ game.status = "waiting" => Len(game.players) \in {0, 1}
       /\ game.status \in {"active", "completed", "draw"} => Len(game.players) = 2

\* A join has filled the game while another join on the same game is suspended
\* in the game model.
C11_Witness ==
  \E c, d \in CallIds :
    /\ calls[c].op = "joinGame" /\ calls[c].pc = "join_model"
    /\ calls[d].op = "joinGame" /\ calls[d].pc = "done" /\ calls[d].result = Ok
    /\ calls[c].gameId = calls[d].gameId
    /\ calls[c].gameId \in games
    /\ Len(gameObj[calls[c].gameId].players) = 2

\* ----- C12
StepOf(g, from, to) ==
  \E c \in CallIds :
    /\ calls[c].gameId = g
    /\ calls[c].pc = from
    /\ calls'[c].pc = to

\* C12: a game is created waiting, with an empty 3x3 board, no players, no
\* moves and null currentPlayerId and winnerId; its status then changes only
\* from waiting to active, in the joinGame that adds the second player, and
\* from active to completed or draw, in a makeMove.
C12_StatusLifecycle ==
  [][/\ \A g \in DOMAIN gameObj' \ DOMAIN gameObj :
          LET game == gameObj'[g]
          IN /\ g \in games'
             /\ game.status = "waiting"
             /\ DOMAIN game.board = 0 .. 2
             /\ \A r \in 0 .. 2 : DOMAIN game.board[r] = 0 .. 2
             /\ \A r \in 0 .. 2 : \A col \in 0 .. 2 : game.board[r][col] = Null
             /\ game.players = <<>> /\ game.moves = <<>>
             /\ game.currentPlayerId = Null /\ game.winnerId = Null
     /\ \A g \in DOMAIN gameObj :
          LET old == gameObj[g]
              new == gameObj'[g]
          IN new.status # old.status =>
               \/ /\ old.status = "waiting" /\ new.status = "active"
                  /\ Len(old.players) = 1 /\ Len(new.players) = 2
                  /\ StepOf(g, "join_model", "done")
               \/ /\ old.status = "active" /\ new.status \in {"completed", "draw"}
                  /\ Len(new.moves) = Len(old.moves) + 1
                  /\ StepOf(g, "move_model", "move_done")]_vars

\* A game has gone from waiting through active to draw.
C12_Witness ==
  \E g \in games :
    /\ TwoDistinct(gameObj[g])
    /\ gameObj[g].status = "draw"

\* ----- C13
JoinSucceeds(c) ==
  /\ calls[c].pc = "join_model"
  /\ calls'[c].pc = "done"
  /\ calls'[c].result = Ok

\* C13: a successful joinGame appends the joining player to the end of the
\* players list and changes no other entry; the join that makes the list two
\* long turns the game active with currentPlayerId the first entry, and the
\* join that makes it one long leaves the game waiting with currentPlayerId
\* null.  A players list changes in no other step.
C13_JoinAppends ==
  [][/\ \A c \in CallIds :
          JoinSucceeds(c) =>
            LET old == gameObj[calls[c].gameId]
                new == gameObj'[calls[c].gameId]
            IN /\ new.players = old.players \o <<calls[c].playerId>>
               /\ Len(new.players) = 2 =>
                    /\ new.status = "active"
                    /\ new.currentPlayerId = new.players[1]
                    /\ new.currentPlayerId = old.players[1]
               /\ Len(new.players) = 1 =>
                    /\ new.status = "waiting"
                    /\ new.currentPlayerId = Null
               /\ Len(new.players) \in {1, 2}
     /\ \A g \in DOMAIN gameObj :
          gameObj'[g].players # gameObj[g].players =>
            \E c \in CallIds : JoinSucceeds(c) /\ calls[c].gameId = g]_vars

\* The second of two distinct players has joined: the game is active and the
\* turn is with the first.
C13_Witness ==
  \E c \in CallIds : \E g \in games :
    /\ calls[c].op = "joinGame" /\ calls[c].pc = "done" /\ calls[c].result = Ok
    /\ calls[c].gameId = g
    /\ TwoDistinct(gameObj[g])
    /\ calls[c].playerId = gameObj[g].players[2]
    /\ gameObj[g].status = "active"
    /\ gameObj[g].moves = <<>>
    /\ gameObj[g].currentPlayerId = gameObj[g].players[1]

\* ----- C14
\* The game model answers call c, the join of a player who is not a participant
\* of a game that has two players.
ThirdJoinAnswered(c) ==
  /\ calls[c].pc = "join_model"
  /\ calls[c].found
  /\ calls'[c].pc = "done"
  /\ Len(gameObj[calls[c].gameId].players) = 2
  /\ findIndex(gameObj[calls[c].gameId].players, calls[c].playerId) = -1

\* C14 as stated: the join of a third player on a game with two players fails
\* with 'Game is full' and the game keeps its two participants.
C14_ThirdJoinGameFull ==
  [][\A c \in CallIds :
       ThirdJoinAnswered(c) =>
         /\ calls'[c].result = ErrGameFull
         /\ gameObj' = gameObj /\ games' = games]_vars

\* C14 amended: the join of a third player on a game with two players fails
\* with 'Game is not accepting new players', because a game with two players is
\* not waiting and the status is looked at first; the game keeps its two
\* participants, and no join ever fails with 'Game is full'.
C14_ThirdJoinNotAccepting ==
  [][/\ \A c \in CallIds :
          ThirdJoinAnswered(c) =>
            /\ calls'[c].result = ErrNotAccepting
            /\ gameObj' = gameObj /\ games' = games
     /\ \A c \in CallIds : calls'[c].result # ErrGameFull]_vars

\* A third player has been turned away from a game of two distinct players.
C14_Witness ==
  \E c \in CallIds : \E g \in games :
    /\ calls[c].op = "joinGame" /\ calls[c].pc = "done"
    /\ calls[c].result = ErrNotAccepting
    /\ calls[c].gameId = g
    /\ TwoDistinct(gameObj[g])
    /\ findIndex(gameObj[g].players, calls[c].playerId) = -1
    /\ calls[c].playerId \in DOMAIN players

\* ----- C15
Returns(c, op) ==
  /\ calls[c].op = op
  /\ calls[c].pc \notin {"idle", "done"}
  /\ calls'[c].pc = "done"

\* The checks GameService makes before it looks the game up.
PreCheck == {ErrCoordinates, ErrPlayerUnknown, ErrPlayerBusy}

InRange(row, col) == row \in 0 .. 2 /\ col \in 0 .. 2

\* The step is the start of a makeMove call in slot c.
MoveStarts(c) ==
  /\ Settled(c)
  /\ calls'[c] # calls[c]
  /\ calls'[c].op = "makeMove"

\* The step is GameService.makeMove called in slot c with these coordinates.
MoveStartsAt(c, row, col) ==
  makeMove(c, calls'[c].gameId, calls'[c].playerId, row, col)

\* The game model answers a makeMove call that found no game: 'Game not found'.
AbsentAnswered ==
  \A c \in CallIds :
    (/\ calls[c].pc = "move_model"
     /\ ~ calls[c].found
     /\ calls'[c] # calls[c]) =>
      /\ calls'[c].pc = "done"
      /\ calls'[c].result = ErrGameNotFound
      /\ games' = games /\ gameObj' = gameObj

\* C16 as stated: makeMove on an id that is not in the Map fails with 'Game not
\* found' whatever the player and the coordinates.
C16_AbsentGameNotFound ==
  [][/\ \A c \in CallIds :
          (MoveStarts(c) /\ calls'[c].gameId \notin games) =>
            \/ IF calls'[c].pc = "done"
                 THEN calls'[c].result = ErrGameNotFound
                 ELSE calls'[c].pc = "move_model" /\ ~ calls'[c].found
            \/ \A row, col \in Coords : ~ MoveStartsAt(c, row, col)
     /\ AbsentAnswered]_vars

\* C16 amended: makeMove on an id that is not in the Map fails with 'Game not
\* found' when row and col are in 0..2, and with 'Move coordinates must be
\* between 0 and 2' when one of them is not, whatever the player.
C16_AbsentGameInRange ==
  [][/\ \A c \in CallIds :
          (MoveStarts(c) /\ calls'[c].gameId \notin games) =>
            /\ \/ calls'[c].pc = "move_model" /\ ~ calls'[c].found
               \/ \A row, col \in Coords :
                    InRange(row, col) => ~ MoveStartsAt(c, row, col)
            /\ \/ calls'[c].pc = "done" /\ calls'[c].result = ErrCoordinates
               \/ \A row, col \in Coords :
                    ~ InRange(row, col) => ~ MoveStartsAt(c, row, col)
     /\ AbsentAnswered]_vars

\* Two moves on an id that was never created have failed, one with 'Game not
\* found' and one on coordinates.
C16_Witness ==
  \E c, d \in CallIds :
    /\ calls[c].op = "makeMove" /\ calls[c].pc = "done"
    /\ calls[d].op = "makeMove" /\ calls[d].pc = "done"
    /\ calls[c].gameId = calls[d].gameId
    /\ calls[c].gameId \notin DOMAIN gameObj
    /\ calls[c].result = ErrGameNotFound
    /\ calls[d].result = ErrCoordinates

\* ----- C17
\* C17: a makeMove call with row or col outside 0..2 fails with 'Move
\* coordinates must be between 0 and 2' in the step it is made, whatever the
\* game id and the player id; it changes no game, and no call that has reached
\* the game model carries such coordinates.
C17_CoordinatesFirst ==
  [][/\ \A c \in CallIds :
          MoveStarts(c) =>
            \/ /\ calls'[c].pc = "done"
               /\ calls'[c].result = ErrCoordinates
               /\ games' = games /\ gameObj' = gameObj
            \/ \A rc \in OutCoords :
                 ~ InRange(rc[1], rc[2]) => ~ MoveStartsAt(c, rc[1], rc[2])
     /\ \A c \in CallIds :
          calls'[c].pc = "move_model" => InRange(calls'[c].row, calls'[c].col)]_vars

\* The player whose turn it is has asked for a move outside the board of an
\* active game.
C17_Witness ==
  \E c \in CallIds : \E g \in games :
    /\ calls[c].op = "makeMove" /\ calls[c].pc = "done"
    /\ calls[c].result = ErrCoordinates
    /\ calls[c].gameId = g
    /\ gameObj[g].status = "active"
    /\ gameObj[g].currentPlayerId = calls[c].playerId

\* ----- C18
\* Call c applies its move in this step.
Applies(c) == calls[c].pc = "move_model" /\ calls'[c].pc = "move_done"

\* C18: a move is applied, and a makeMove call succeeds, only in a step in
\* which the game is in the Map with status active, the caller is the game's
\* currentPlayerId and a participant, row and col are in 0..2 and the cell is
\* empty; no other step changes a board or a move log.
C18_AppliedOnlyWhenLegal ==
  [][/\ \A c \in CallIds :
          Applies(c) =>
            LET call == calls[c]
                g == call.gameId
            IN /\ g \in games
               /\ gameObj[g].status = "active"
               /\ call.playerId = gameObj[g].currentPlayerId
               /\ \E i \in 1 .. Len(gameObj[g].players) :
                    gameObj[g].players[i] = call.playerId
               /\ InRange(call.row, call.col)
               /\ gameObj[g].board[call.row][call.col] = Null
               /\ gameObj'[g].board[call.row][call.col] = call.playerId
     /\ \A c \in CallIds :
          (Returns(c, "makeMove") /\ calls'[c].result = Ok) => calls[c].pc \in AfterMove
     /\ \A g \in DOMAIN gameObj :
          (\/ gameObj'[g].board # gameObj[g].board
           \/ gameObj'[g].moves # gameObj[g].moves) =>
            \E c \in CallIds : Applies(c) /\ calls[c].gameId = g]_vars

\* ----- C19
Changed(old, new) == {rc \in Idx \X Idx : new[rc[1]][rc[2]] # old[rc[1]][rc[2]]}

\* C19: an occupied cell keeps its player in every step, and the step that
\* applies a move changes the targeted cell, which was empty, and no other
\* cell of the board.
C19_CellsAreKept ==
  [][/\ \/ gameObj' = gameObj
        \/ \A g \in DOMAIN gameObj :
             /\ \A rc \in Idx \X Idx :
                  gameObj[g].board[rc[1]][rc[2]] # Null =>
                    gameObj'[g].board[rc[1]][rc[2]] = gameObj[g].board[rc[1]][rc[2]]
             /\ Cardinality(Changed(gameObj[g].board, gameObj'[g].board)) <= 1
     /\ \A c \in CallIds :
          Applies(c) =>
            LET g == calls[c].gameId
            IN /\ Changed(gameObj[g].board, gameObj'[g].board)
                    = {<<calls[c].row, calls[c].col>>}
               /\ gameObj'[g].board[calls[c].row][calls[c].col] = calls[c].playerId]_vars

\* Three cells of an active game of two distinct players are occupied, and both
\* players hold one.
C19_Witness ==
  \E g \in games :
    /\ TwoDistinct(gameObj[g])
    /\ gameObj[g].status = "active"
    /\ Cardinality(Occupied(gameObj[g].board)) = 3
    /\ \A i \in 1 .. 2 :
         \E rc \in Idx \X Idx : gameObj[g].board[rc[1]][rc[2]] = gameObj[g].players[i]

\* ----- C20
LinesOf(board, p) == {line \in Lines : \A rc \in line : board[rc[1]][rc[2]] = p}

\* C20 as stated: in a game of two distinct players no board holds two complete
\* lines of the same player.
C20_AtMostOneLine ==
  \A g \in DOMAIN gameObj :
    TwoDistinct(gameObj[g]) =>
      \A p \in PlayPlayerIds : Cardinality(LinesOf(gameObj[g].board, p)) <= 1

\* C20 amended: in a game of two distinct players a move completes at most two
\* lines of the mover, which cross at the cell played; a board with a complete
\* line is that of a completed game, every complete line is the winner's and
\* contains the cell of the last move, and the other player holds no line.
C20_LinesCrossAtLastMove ==
  \A g \in DOMAIN gameObj :
    LET game == gameObj[g]
        n == Len(game.moves)
    IN TwoDistinct(game) =>
         \A p \in PlayPlayerIds :
           /\ Cardinality(LinesOf(game.board, p)) <= 2
           /\ LinesOf(game.board, p) # {} =>
                /\ game.status = "completed"
                /\ game.winnerId = p
                /\ n > 0
                /\ game.moves[n].playerId = p
                /\ \A line \in LinesOf(game.board, p) :
                     <<game.moves[n].row, game.moves[n].col>> \in line

\* The ninth move of a game has completed two lines at once.
C20_Witness ==
  \E g \in games :
    /\ TwoDistinct(gameObj[g])
    /\ \E p \in PlayPlayerIds : Cardinality(LinesOf(gameObj[g].board, p)) = 2

\* ----- C21
\* C21: for every 3x3 board and every player, checkWinCondition reports won
\* exactly when the player occupies all three cells of at least one of the 8
\* lines (3 rows, 3 columns, 2 diagonals), and not won otherwise.
C21_WonIffLine ==
  calls[1].op = "checkWinCondition" =>
    calls[1].found = HasLine(gameObj[1].board, calls[1].playerId)

\* The player holds the diagonal from the top right corner and no other line,
\* on a board where the other player holds cells too; the answer is won.
C21_Witness ==
  LET board == gameObj[1].board
      p == calls[1].playerId
  IN /\ calls[1].op = "checkWinCondition"
     /\ calls[1].found
     /\ {line \in Lines : \A rc \in line : board[rc[1]][rc[2]] = p}
          = {{<<i, BoardSize - 1 - i>> : i \in Idx}}
     /\ \E rc \in Idx \X Idx : board[rc[1]][rc[2]] \notin {Null, p}

\* ----- C22
\* The call in slot c starts the statistics update of its game in this step.
IssuesUpdate(c) == calls[c].pc = "move_done" /\ calls'[c].pc = "stats_get"

\* The move the call in slot c asked for is the last one of the log of its game.
MadeLastMove(c) ==
  LET moves == gameObj[calls[c].gameId].moves
      last == moves[Len(moves)]
  IN /\ Len(moves) > 0
     /\ last.playerId = calls[c].playerId
     /\ last.row = calls[c].row
     /\ last.col = calls[c].col

\* C22: in a game with two distinct participants the statistics update of the
\* finished game is issued only by the makeMove call whose move made the game
\* completed or draw, so once per finished game, and never by a makeMove whose
\* move left the game active.
C22_IssuedByFinishingMove ==
  [][\A c \in CallIds :
       IssuesUpdate(c) /\ TwoDistinct(gameObj[calls[c].gameId]) => MadeLastMove(c)]_vars

\* ----- C23
\* The counters of a player after exactly one recorded result.
OneResult(result, moves) ==
  [gamesPlayed |-> 1,
   gamesWon |-> IF result = "win" THEN 1 ELSE 0,
   gamesLost |-> IF result = "loss" THEN 1 ELSE 0,
   gamesDrawn |-> IF result = "draw" THEN 1 ELSE 0,
   totalMoves |-> moves]

\* What a participant of a finished game is owed: the result, and the number of
\* cells of the board that carry the participant's mark.
Owed(game, p) ==
  OneResult(IF game.status = "draw" THEN "draw"
            ELSE IF game.winnerId = p THEN "win" ELSE "loss",
            Cardinality({rc \in Occupied(game.board) : game.board[rc[1]][rc[2]] = p}))

\* C23: once the makeMove that finished a game with two distinct participants
\* has returned and no call is in flight, each participant has received exactly
\* one result for the game (win and loss when it is completed, draw and draw
\* when it is a draw) with the number of the participant's own moves, and the
\* two move counts add up to the length of the log.  The participants are
\* players of the store, and no player has been deleted from it.
C23_OneResultEach ==
  \A g \in DOMAIN gameObj :
    LET game == gameObj[g]
    IN (/\ Quiet
        /\ Terminal(game)
        /\ TwoDistinct(game)
        /\ Len(playerIds) = Len(playerObj)
        /\ \A c \in CallIds : calls[c].op # "deletePlayer"
        /\ \A h \in DOMAIN gameObj : h # g => gameObj[h].players = <<>>)
       => /\ \A i \in 1 .. 2 : players[game.players[i]] = Owed(game, game.players[i])
          /\ players[game.players[1]].totalMoves + players[game.players[2]].totalMoves
               = Len(game.moves)

\* ----- C24
\* The joinGame call in slot c is for a player id the player store does not
\* hold.
UnknownJoin(c) ==
  calls[c].op = "joinGame" /\ calls[c].playerId \notin DOMAIN players

\* The Player objects created so far.
Created == 1 .. Len(playerObj)

\* C24: a joinGame started for a player id that is not in the player store goes
\* no further than the player check, is answered 'Player not found in database'
\* and leaves every game as it was; a participant is added to a game only by a
\* joinGame call that has passed the player check, and every participant of
\* every game is a player that has been created.
C24_UnknownPlayerRejected ==
  [][/\ \A c \in CallIds :
          (Settled(c) /\ calls'[c].op = "joinGame" /\ calls'[c].pc = "join_player")
            => calls'[c].found = (calls'[c].playerId \in DOMAIN players)
     /\ \A c \in CallIds :
          (/\ calls[c].op = "joinGame" /\ calls[c].pc = "join_player"
           /\ ~ calls[c].found
           /\ calls'[c] # calls[c])
            => /\ calls'[c].pc = "done"
               /\ calls'[c].result = ErrPlayerUnknown
               /\ UNCHANGED <<games, gameObj>>
     /\ \A g \in DOMAIN gameObj :
          gameObj'[g].players # gameObj[g].players
            => \E c \in CallIds :
                 /\ calls[c].op = "joinGame" /\ calls[c].pc = "join_model"
                 /\ calls[c].gameId = g
                 /\ calls'[c].pc = "done"
                 /\ gameObj'[g].players = Append(gameObj[g].players, calls[c].playerId)
     /\ \A g \in DOMAIN gameObj' : \A i \in 1 .. Len(gameObj'[g].players) :
          gameObj'[g].players[i] \in Created']_vars

\* A join of a waiting game by an unknown player has been rejected, and a known
\* player is a participant of the game.
C24_Witness ==
  \E c \in CallIds :
    /\ UnknownJoin(c)
    /\ calls[c].pc = "done"
    /\ calls[c].result = ErrPlayerUnknown
    /\ calls[c].gameId \in games
    /\ gameObj[calls[c].gameId].status = "waiting"
    /\ Len(gameObj[calls[c].gameId].players) = 1

\* ----- C25
\* The player is a participant of a game of the Map that is active.
InActiveGame(p) ==
  \E a \in games :
    /\ gameObj[a].status = "active"
    /\ \E i \in 1 .. Len(gameObj[a].players) : gameObj[a].players[i] = p

\* C25 as stated: with one request at a time, a joinGame by a player who is a
\* participant of an active game fails with 'Player is already in an active
\* game'; the call ends at the check of the active games, before the join of
\* the game model, and no game changes.
C25_AnyBusyPlayerRejected ==
  [][\A c \in CallIds :
       (Returns(c, "joinGame") /\ InActiveGame(calls[c].playerId))
         => /\ calls[c].pc = "join_list"
            /\ calls'[c].result = ErrPlayerBusy
            /\ UNCHANGED <<games, gameObj>>]_vars

\* C25 amended: with one request at a time, a joinGame by a participant of an
\* active game fails with 'Player is already in an active game' at the check
\* of the active games when the player is in the player store, and with
\* 'Player not found in database' at the player check when the player has been
\* deleted from it; the game model's join is not called and no game changes.
C25_BusyPlayerRejected ==
  [][\A c \in CallIds :
       (Returns(c, "joinGame") /\ InActiveGame(calls[c].playerId))
         => /\ IF calls[c].playerId \in DOMAIN players
                 THEN calls[c].pc = "join_list" /\ calls'[c].result = ErrPlayerBusy
                 ELSE calls[c].pc = "join_player" /\ calls'[c].result = ErrPlayerUnknown
            /\ UNCHANGED <<games, gameObj>>]_vars

\* A participant of an active game who is in the store asked to join and was
\* refused for being in an active game.
C25_Witness ==
  \E c \in CallIds :
    /\ calls[c].op = "joinGame" /\ calls[c].pc = "done"
    /\ calls[c].result = ErrPlayerBusy
    /\ InActiveGame(calls[c].playerId)
    /\ calls[c].playerId \in DOMAIN players
    /\ calls[c].gameId \in games

\* A participant of an active game who was deleted from the store asked to
\* join and was refused as unknown.
C25_DeletedParticipant ==
  \E c \in CallIds :
    /\ calls[c].op = "joinGame" /\ calls[c].pc = "done"
    /\ calls[c].result = ErrPlayerUnknown
    /\ InActiveGame(calls[c].playerId)
    /\ calls[c].playerId \notin DOMAIN players

\* ----- C26
\* C26: createGame with a name of more than NameLimit characters fails with the
\* validation error and adds no game; with a non-empty name of at most NameLimit
\* characters it stores that name, and without a name it stores the generated
\* placeholder; no game of the registry has a name of more than NameLimit
\* characters.
C26_NameAtMostLimit ==
  [][/\ \A name \in Names :
          createGameNamed(name) =>
            IF name.given /\ Len(name.text) > NameLimit
              THEN /\ calls'[1].result = ErrName
                   /\ UNCHANGED <<games, gameObj>>
              ELSE /\ calls'[1].result = Ok
                   /\ games' = games \cup {Len(gameObj) + 1}
                   /\ Len(gameObj') = Len(gameObj) + 1
                   /\ name.given /\ Len(name.text) > 0
                        => gameObj'[Len(gameObj')].name = name.text
                   /\ ~ name.given => gameObj'[Len(gameObj')].name = Placeholder
     /\ \A g \in games' : Len(gameObj'[g].name) <= NameLimit]_vars

\* ----- C27
\* Row-major number of a cell.
CellNo(cell) == cell.row * BoardSize + cell.col

\* C27: getValidMoves fails with 'Game not found' for an id that is not in the
\* Map and with 'Game is not active' for a game that is waiting, completed or
\* draw; for an active game it returns the empty cells of the board and nothing
\* else, each once, in row-major order; in every case no game and no player
\* changes.
C27_ValidMoves ==
  [][\A c \in CallIds :
       Returns(c, "getValidMoves") =>
         LET g == calls[c].gameId
             cells == calls'[c].cells
         IN /\ UNCHANGED <<games, gameObj, players>>
            /\ IF g \notin games
                 THEN calls'[c].result = ErrGameNotFound /\ cells = <<>>
               ELSE IF gameObj[g].status \in {"waiting", "completed", "draw"}
                 THEN calls'[c].result = ErrNotActive /\ cells = <<>>
               ELSE /\ gameObj[g].status = "active"
                    /\ calls'[c].result = Ok
                    /\ {<<cells[i].row, cells[i].col>> : i \in 1 .. Len(cells)}
                         = (Idx \X Idx) \ Occupied(gameObj[g].board)
                    /\ \A i \in 1 .. (Len(cells) - 1) : CellNo(cells[i]) < CellNo(cells[i + 1])]_vars

\* The valid moves of an active game were returned when some cells of the board
\* were occupied and some were empty.
C27_Witness ==
  \E c \in CallIds :
    /\ calls[c].op = "getValidMoves" /\ calls[c].pc = "done"
    /\ calls[c].result = Ok
    /\ calls[c].gameId \in games
    /\ gameObj[calls[c].gameId].status = "active"
    /\ Len(calls[c].cells) \in 2 .. 7
    /\ Len(calls[c].cells) = BoardSize * BoardSize - Len(gameObj[calls[c].gameId].moves)

\* ----- C28
\* C28: every Move record of a game's log carries a sequence number, and the
\* sequence number of the i-th record is i - 1, the number of moves the log
\* held before the makeMove that appended it.
C28_MovesCarrySequence ==
  \A g \in DOMAIN gameObj :
    \A i \in 1 .. Len(gameObj[g].moves) :
      /\ "sequence" \in DOMAIN gameObj[g].moves[i]
      /\ gameObj[g].moves[i].sequence = i - 1

\* ----- C29
\* What the call in slot c is answered if it runs to its end with no other call
\* taking a step in between.
Alone(c) ==
  LET call == calls[c]
      g == call.gameId
      joined == IF g \notin games THEN ErrGameNotFound ELSE joinGameError(gameObj[g])
  IN IF call.pc = "join_player"
       THEN IF ~ call.found THEN ErrPlayerUnknown
            ELSE IF InActiveGame(call.playerId) THEN ErrPlayerBusy
            ELSE joined
     ELSE IF call.pc = "join_list"
       THEN IF \E a \in call.list : \E i \in 1 .. Len(gameObj[a].players) :
                 gameObj[a].players[i] = call.playerId
              THEN ErrPlayerBusy
              ELSE joined
     ELSE IF call.pc = "join_model"
       THEN IF ~ call.found THEN ErrGameNotFound ELSE joinGameError(gameObj[g])
     ELSE IF call.pc = "move_model"
       THEN IF ~ call.found THEN ErrGameNotFound
            ELSE makeMoveError(gameObj[g], call.playerId, call.row, call.col)
     ELSE IF call.pc = "del_get"
       THEN IF ~ call.found THEN ErrGameNotFound
            ELSE IF gameObj[g].status = "active" THEN ErrDeleteActive
            ELSE Ok
     ELSE IF call.pc = "del_model"
       THEN IF call.found THEN Ok ELSE ErrGameNotFound
     ELSE IF call.pc = "done" THEN call.result
     ELSE Ok

\* The call in slot d takes a step.
Steps(d) == ~ Settled(d) /\ calls'[d] # calls[d]

\* C29: a step of a joinGame, makeMove or deleteGame call on one game leaves
\* every other game as it was, in the Map or out of it, and, while no game has
\* the same player twice, does not change what a call in flight on another game
\* id is going to be answered.
C29_GamesAreIndependent ==
  [][\A d \in CallIds :
       Steps(d) =>
         /\ \A h \in DOMAIN gameObj :
              h # calls[d].gameId => /\ gameObj'[h] = gameObj[h]
                                     /\ (h \in games') = (h \in games)
         /\ \A c \in CallIds :
              (/\ c # d /\ ~ Settled(c) /\ calls[c].gameId # calls[d].gameId
               /\ \A h \in DOMAIN gameObj' : Len(gameObj'[h].players) = 2 =>
                                                TwoDistinct(gameObj'[h]))
                => Alone(c)' = Alone(c)]_vars

\* ----- C30
\* The players of a game, as a set.
Participants(game) == {game.players[i] : i \in 1 .. Len(game.players)}

\* C30: no player is a participant of two games of the Map that are active at
\* the same time, each with two distinct participants.
C30_OneActiveGamePerPlayer ==
  \A g, h \in games :
    (/\ g # h
     /\ gameObj[g].status = "active" /\ TwoDistinct(gameObj[g])
     /\ gameObj[h].status = "active" /\ TwoDistinct(gameObj[h]))
      => Participants(gameObj[g]) \cap Participants(gameObj[h]) = {}

\* ----- C31
\* The finished games the player took part in.
FinishedGamesOf(p) ==
  {g \in DOMAIN gameObj : Terminal(gameObj[g]) /\ p \in Participants(gameObj[g])}

\* C31: once every makeMove call has returned, the gamesPlayed counter of every
\* player of the store equals the number of finished games the player took part
\* in, also when two games of the same player finish together.
C31_NoLostUpdate ==
  Quiet => \A p \in DOMAIN players :
             players[p].gamesPlayed = Cardinality(FinishedGamesOf(p))

\* ----- C32
\* C32: a completed game has as winner the player of the last move of its log,
\* the winner holds a complete line and no other participant holds one; a drawn
\* game has a full board, as many moves as the board has cells, and no
\* participant holds a complete line.
C32_TerminalStatesMatchBoard ==
  \A g \in games :
    LET game == gameObj[g]
        n == Len(game.moves)
    IN /\ game.status = "completed" =>
            /\ n > 0
            /\ game.winnerId = game.moves[n].playerId
            /\ HasLine(game.board, game.winnerId)
            /\ \A q \in Participants(game) \ {game.winnerId} : ~ HasLine(game.board, q)
       /\ game.status = "draw" =>
            /\ Full(game.board)
            /\ n = BoardSize * BoardSize
            /\ \A q \in Participants(game) : ~ HasLine(game.board, q)

\* A game won by the move that filled the board.
C32_Witness ==
  \E g \in games : /\ gameObj[g].status = "completed"
                   /\ Full(gameObj[g].board)
                   /\ TwoDistinct(gameObj[g])

\* ----- C33
\* A cell of the board on which the game accepts a move of its current player.
LegalCells(game) ==
  {rc \in Idx \X Idx : makeMoveError(game, game.currentPlayerId, rc[1], rc[2]) = Ok}

ActiveGame(g) == g \in games /\ gameObj[g].status = "active"

\* C33: an active game has an empty cell and its current player a legal move; no
\* game has more moves than the board has cells; and when the current player
\* keeps submitting legal moves, an active game becomes completed or drawn.
C33_GamesTerminate ==
  /\ [](\A g \in games :
          /\ Len(gameObj[g].moves) <= BoardSize * BoardSize
          /\ gameObj[g].status = "active" =>
               /\ ~ Full(gameObj[g].board)
               /\ LegalCells(gameObj[g]) # {})
  /\ \A g \in GameIds :
       ActiveGame(g) ~> (g \in DOMAIN gameObj /\ Terminal(gameObj[g]))

\* An active game with one empty cell left.
C33_Witness ==
  \E g \in games : /\ gameObj[g].status = "active"
                   /\ Len(gameObj[g].moves) = BoardSize * BoardSize - 1

\* ----- C34
\* The number of moves of the log made by the k-th entry of the players list.
MovesOfEntry(game, k) ==
  Cardinality({i \in 1 .. Len(game.moves) : game.moves[i].playerId = game.players[k]})

\* C34: the moves of the log alternate between the two entries of the players
\* list, the first entry first; the first entry has made as many moves as the
\* second or one more.
C34_MovesAlternate ==
  \A g \in games :
    LET game == gameObj[g]
    IN /\ \A i \in 1 .. Len(game.moves) :
            /\ Len(game.players) = 2
            /\ game.moves[i].playerId = game.players[((i - 1) % 2) + 1]
       /\ Len(game.players) = 2 =>
            MovesOfEntry(game, 1) - MovesOfEntry(game, 2) \in {0, 1}

\* A game in which the first participant has moved three times and the second
\* twice.
C34_Witness ==
  \E g \in games : /\ TwoDistinct(gameObj[g])
                   /\ MovesOfEntry(gameObj[g], 1) = 3
                   /\ MovesOfEntry(gameObj[g], 2) = 2

\* ----- C35
\* C35: the gamesPlayed counter of every player is the sum of the player's
\* gamesWon, gamesLost and gamesDrawn counters, also while recordGameResult
\* calls for the same player are in flight together.
C35_PlayedIsSumOfResults ==
  \A p \in DOMAIN players :
    players[p].gamesPlayed =
      players[p].gamesWon + players[p].gamesLost + players[p].gamesDrawn

\* Two calls have recorded a result for the same player, the second while the
\* first was between its read and its write.
C35_Witness ==
  \E p \in DOMAIN players :
    /\ players[p].gamesPlayed > 0
    /\ \E c, d \in CallIds :
         /\ c # d
         /\ calls[c].target = p /\ calls[c].pc = "stats_next"
         /\ calls[d].target = p /\ calls[d].pc = "stats_upd"
         /\ calls[d].stats.gamesPlayed = players[p].gamesPlayed

\* ----- C36
\* The call returns from the statistics update of a finished game.
ReturnsFromUpdate(c) ==
  /\ Returns(c, "makeMove")
  /\ calls[c].pc \in {"stats_get", "stats_upd", "stats_next"}

\* The participants of the game the store holds, and those it does not hold.
Known(game) == Participants(game) \cap DOMAIN players

Unknown(game) == Participants(game) \ DOMAIN players

\* C36: when the statistics update of a finished game fails for a participant
\* that is not in the player store, the makeMove call still returns success, the
\* game is completed or drawn, and a result has been recorded for every
\* participant the store holds.
C36_FailedRecordingIsSwallowed ==
  [][\A c \in CallIds :
       (ReturnsFromUpdate(c) /\ Unknown(gameObj[calls[c].gameId]) # {})
         => /\ calls'[c].result = Ok
            /\ Terminal(gameObj'[calls[c].gameId])
            /\ \A q \in Known(gameObj[calls[c].gameId]) : players'[q].gamesPlayed > 0]_vars

\* The call that finished a game has returned success; the first participant is
\* not in the store and the second has its result.
C36_Witness ==
  \E c \in CallIds :
    /\ calls[c].op = "makeMove" /\ calls[c].pc = "done" /\ calls[c].result = Ok
    /\ LET game == gameObj[calls[c].gameId]
       IN /\ Terminal(game)
          /\ TwoDistinct(game)
          /\ game.players[1] \notin DOMAIN players
          /\ game.players[2] \in DOMAIN players
          /\ players[game.players[2]].gamesPlayed > 0

\* ----- C37
\* C37: every player the router's lookup finds is found by the service's lookup
\* as well, and a join that has passed the router's lookup is never answered
\* 'Player not found in database'.
C37_OnePlayerStore ==
  /\ \A p \in RoutePlayerIds : routeGetPlayerById(p) => p \in DOMAIN players
  /\ \A c \in CallIds :
       (calls[c].op = "routeJoin" /\ calls[c].pc = "done")
         => calls[c].result # ErrPlayerUnknown

\* ----- C38
\* No other call is about the player of call c (a slot takes one call).
OnlyCallOn(c) ==
  \A d \in CallIds \ {c} : calls[d].playerId # calls[c].playerId

\* C38: when an updatePlayer call fails and no other call is about its player,
\* the name, the email and the updatedAt of the player are what they were when
\* the call started.
C38_FailedUpdateChangesNothing ==
  [][\A c \in CallIds :
       (/\ Returns(c, "updatePlayer")
        /\ calls'[c].result # Ok
        /\ calls[c].found
        /\ OnlyCallOn(c))
         => playerObj'[calls[c].playerId] = calls[c].before]_vars

\* ----- C39
\* C39: the totalGames of an overview is the number of games the Map holds at
\* the moment the three counts are taken, whatever their statuses.
C39_TotalIsRegistrySize ==
  \A c \in CallIds :
    calls[c].pc = "overview_all" => totalGames(calls[c].counts) = Cardinality(games)

====
